---- MODULE Spec2Model ----
(***************************************************************************)
(* A model of rda-python-dsquasar: tacctar.py (file collection, batching   *)
(* by size, tar / batch-list / member-list writing) and taccrec.py (the    *)
(* tfile catalog record and the wfile_<dsid> association updates).         *)
(***************************************************************************)
EXTENDS Integers, Sequences, FiniteSets, TLC

\* ------------------------------------------------------------------------
\* Bounds of the model
\* ------------------------------------------------------------------------
\* longest input list given to group_files_by_size
MaxFiles == 3
\* largest max_size tried; file sizes range over 0 .. 2*MaxMaxSize+1
MaxMaxSize == 2

\* os.path.getsize raised for this file (get_file_size answers 0)
StatError == -1

\* Python's None for a name; no tid was read back
None == "None"
NoTid == -1

FileSizes == {StatError} \cup (0 .. (2 * MaxMaxSize + 1))

RECURSIVE SeqsUpTo(_, _)
SeqsUpTo(S, n) ==
    IF n = 0 THEN {<<>>}
    ELSE LET shorter == SeqsUpTo(S, n - 1)
         IN  shorter \cup {Append(s, x) : s \in {t \in shorter : Len(t) = n - 1}, x \in S}

VARIABLES
    \* group_files_by_size
    files,          \* the argument: files[i] is the on-disk size of the i-th path
    min_size,
    max_size,
    batches,        \* list of lists of file indices (positions in files)
    current_batch,
    current_size,
    fi,             \* position of the for loop (next file to look at)
    gpc,            \* "loop" | "tail" | "done"
    skiplog         \* the "larger than max tar size" warnings, one file index each

gvars == <<files, min_size, max_size, batches, current_batch, current_size, fi, gpc, skiplog>>

VARIABLES
    \* the file system under the output directory
    fs,             \* the files of the output directory: path -> what the file holds
    \* the catalog (PostgreSQL)
    db,             \* committed: [tfile : set of rows, wfile : DsNames -> table or NoTable]
    tx,             \* what the open connection of insert_tfile_row sees (db + uncommitted)
    tid_seq,        \* the sequence behind tfile.tid
    clock,          \* datetime.now() of the run, counted in runs
    \* taccrec.py main / insert_tfile_row
    cpc,            \* where the process is
    member_list,    \* --member-list
    no_update,      \* --no-update
    summary,        \* get_tar_summary_and_details(...)[0]
    member_details, \* the member_details argument of insert_tfile_row (or None)
    tid,            \* the local tid of insert_tfile_row
    mi,             \* position of the loop over member_details
    result,         \* how the last process ended
    open_conns,     \* connections opened and not closed
    fault,          \* the statement that failed in this run, "none" when none did
    db0,            \* db when the run began
    calls,          \* what each call of insert_tfile_row that read a tid back got
    committed       \* the first commit of insert_tfile_row went through in this run

VARIABLES
    \* tacctar.py main: tar_batches_across_dirs, tar_batches, tar_batch_file
    src,            \* the dataset files under the tar root: path -> [exists, size, mode]
    tpc,            \* where the process is
    targs,          \* what the run was started for
    bidx,           \* enumerate(batches, 1)
    ti,             \* position in the batch, the file list or the members
    file_list,      \* tar_batch_file: the lines read from the batch file
    truns,          \* runs of tacctar so far
    fs0,            \* fs when the run began
    \* a build and its catalog record, run again after a kill
    phase,
    kills

VARIABLES
    \* tacctar.py: collect_all_files, process_directory_tree
    wpc,            \* where the process is
    wargs,          \* what the run was started for
    wd,             \* position of the loop over dataset_dirs
    wfi,            \* position of the walk in the dataset
    wcur,           \* cur: "none" (None), "open", or "aborted" after a failed query
    out,            \* files (all_files)
    wlog,           \* what was logged
    wconns,         \* connections opened and not closed
    walks           \* runs of the collector so far

wvars == <<wpc, wargs, wd, wfi, wcur, out, wlog, wconns, walks>>

VARIABLES
    rout,           \* what the run of taccrec has printed
    tlog            \* the warnings and the skip notice of the run of tacctar

ovars == <<rout, tlog>>

fsvars == <<fs>>
tvars == <<src, tpc, targs, bidx, ti, file_list, truns, fs0>>
kvars == <<phase, kills>>
dbvars == <<db, tx, tid_seq, clock>>
cvars == <<cpc, member_list, no_update, summary, member_details, tid, mi, result,
           open_conns, fault, db0, calls, committed>>

vars == <<gvars, fsvars, dbvars, cvars, tvars, kvars, wvars, ovars>>

\* ------------------------------------------------------------------------
\* tacctar.py: get_file_size, group_files_by_size
\* ------------------------------------------------------------------------
get_file_size(f) == IF files[f] = StatError THEN 0 ELSE files[f]

\* lines 227-228: get_batch_size
RECURSIVE SumSizes(_)
SumSizes(b) == IF b = <<>> THEN 0 ELSE get_file_size(Head(b)) + SumSizes(Tail(b))

\* the skip test of line 49
TooLarge(fsize, maxsz) == fsize > 2 * maxsz

MergeBackNever(cursize, minsz, bs) == FALSE

\* the merge test of lines 53 and 66
MergeBack(cursize, minsz, bs) == cursize < minsz /\ bs # <<>>

\* the batch put in front of the last batch's files
ExtendLastInFront(bs, cb) == [bs EXCEPT ![Len(bs)] = cb \o bs[Len(bs)]]

\* batches[-1].extend(current_batch)
ExtendLast(bs, cb) == [bs EXCEPT ![Len(bs)] = bs[Len(bs)] \o cb]

GroupInit ==
    /\ files \in SeqsUpTo(FileSizes, MaxFiles)
    /\ max_size \in 1 .. MaxMaxSize
    /\ min_size \in 0 .. max_size
    /\ batches = <<>>
    /\ current_batch = <<>>
    /\ current_size = 0
    /\ fi = 1
    /\ gpc = "loop"
    /\ skiplog = <<>>

\* lines 49-51: the file is skipped with a warning
GroupSkip ==
    /\ gpc = "loop" /\ fi <= Len(files)
    /\ TooLarge(get_file_size(fi), max_size)
    /\ skiplog' = Append(skiplog, fi)
    /\ fi' = fi + 1
    /\ UNCHANGED <<files, min_size, max_size, batches, current_batch, current_size, gpc>>
    /\ UNCHANGED <<fsvars, dbvars, cvars, tvars, kvars, wvars, ovars>>

\* lines 52-57: the file does not fit, the small current batch goes to the previous one
GroupOverflowMerge ==
    /\ gpc = "loop" /\ fi <= Len(files)
    /\ ~TooLarge(get_file_size(fi), max_size)
    /\ current_size + get_file_size(fi) > max_size
    /\ MergeBack(current_size, min_size, batches)
    /\ batches' = ExtendLast(batches, current_batch)
    /\ current_batch' = <<fi>>
    /\ current_size' = get_file_size(fi)
    /\ fi' = fi + 1
    /\ UNCHANGED <<files, min_size, max_size, gpc, skiplog>>
    /\ UNCHANGED <<fsvars, dbvars, cvars, tvars, kvars, wvars, ovars>>

\* lines 52, 58-61: the file does not fit, the current batch is closed
GroupOverflowClose ==
    /\ gpc = "loop" /\ fi <= Len(files)
    /\ ~TooLarge(get_file_size(fi), max_size)
    /\ current_size + get_file_size(fi) > max_size
    /\ ~MergeBack(current_size, min_size, batches)
    /\ batches' = Append(batches, current_batch)
    /\ current_batch' = <<fi>>
    /\ current_size' = get_file_size(fi)
    /\ fi' = fi + 1
    /\ UNCHANGED <<files, min_size, max_size, gpc, skiplog>>
    /\ UNCHANGED <<fsvars, dbvars, cvars, tvars, kvars, wvars, ovars>>

\* lines 62-64: the file fits
GroupAppend ==
    /\ gpc = "loop" /\ fi <= Len(files)
    /\ ~TooLarge(get_file_size(fi), max_size)
    /\ ~(current_size + get_file_size(fi) > max_size)
    /\ current_batch' = Append(current_batch, fi)
    /\ current_size' = current_size + get_file_size(fi)
    /\ fi' = fi + 1
    /\ UNCHANGED <<files, min_size, max_size, batches, gpc, skiplog>>
    /\ UNCHANGED <<fsvars, dbvars, cvars, tvars, kvars, wvars, ovars>>

\* lines 65-70: after the loop
GroupFinish ==
    /\ gpc = "loop" /\ fi > Len(files)
    /\ batches' = IF current_batch = <<>> THEN batches
                  ELSE IF MergeBack(current_size, min_size, batches)
                       THEN ExtendLast(batches, current_batch)
                       ELSE Append(batches, current_batch)
    /\ gpc' = "done"
    /\ UNCHANGED <<files, min_size, max_size, current_batch, current_size, fi, skiplog>>
    /\ UNCHANGED <<fsvars, dbvars, cvars, tvars, kvars, wvars, ovars>>

\* lines 312-317 of main: after group_files_by_size (called with ONE_TB and
\* THREE_TB, here min_size and max_size), a last batch below ONE_TB goes to the
\* batch before it
GroupMainMerge ==
    /\ gpc = "done"
    /\ batches' = IF Len(batches) > 1 /\ SumSizes(batches[Len(batches)]) < min_size
                  THEN ExtendLast(SubSeq(batches, 1, Len(batches) - 1), batches[Len(batches)])
                  ELSE batches
    /\ gpc' = "main_done"
    /\ UNCHANGED <<files, min_size, max_size, current_batch, current_size, fi, skiplog>>
    /\ UNCHANGED <<fsvars, dbvars, cvars, tvars, kvars, wvars, ovars>>

GroupNext ==
    \/ GroupSkip
    \/ GroupOverflowMerge
    \/ GroupOverflowClose
    \/ GroupAppend
    \/ GroupFinish
    \/ GroupMainMerge


\* ------------------------------------------------------------------------
\* Files and the catalog
\* ------------------------------------------------------------------------

\* the files of the output directory are <stem>.batch, <stem>.tar and
\* <stem>.tar.mbr, the stem being <prefix>_part<idx>_<n>files
Stem(prefix, idx, n) == [prefix |-> prefix, idx |-> idx, n |-> n]
Path(s, e) == [stem |-> s, ext |-> e]

\* os.path.exists / os.path.isfile
Exists(fsys, p) == p \in DOMAIN fsys

\* open(p, "w") ... close(), and tarfile.open(p, "w") ... close(): the file is
\* created, or what it held is gone, and it holds data
WriteFile(fsys, p, data) ==
    [q \in DOMAIN fsys \cup {p} |-> IF q = p THEN data ELSE fsys[q]]

\* lines 205-208: the prefix of an archive name, "_".join(names) when dn = 0,
\* <names[1]>_dn<dn> otherwise
JoinedPrefix(names) == [names |-> names, dn |-> 0]
CollapsedPrefix(first, count) == [names |-> <<first>>, dn |-> count]

\* the two member lists given to taccrec
MbrP1 == Path(Stem(JoinedPrefix(<<"d1">>), 1, 2), "tar.mbr")
MbrP2 == Path(Stem(JoinedPrefix(<<"d1">>), 2, 1), "tar.mbr")

\* a member name is its list of '/'-separated parts: "d1/a" is <<"d1", "a">>,
\* "d1/" is <<"d1", "">>, "x" is <<"x">> and "" is <<"">>
N_d1a == <<"d1", "a">>
N_d1b == <<"d1", "b">>
N_d2a == <<"d2", "a">>
N_x == <<"x">>
N_d1dir == <<"d1", "">>

\* the permission column of a listing line, one character per element
P_rw == <<"-", "r", "w", "-", "r", "-", "-", "r", "-", "-">>
P_ro == <<"-", "r", "-", "-", "r", "-", "-", "r", "-", "-">>
P_dir == <<"d", "r", "w", "x", "r", "-", "x", "r", "-", "x">>

Line(p, sz, n) == [perms |-> p, size |-> sz, name |-> n]

\* the lines a member list given to taccrec is made of
ListingLines ==
    { Line(P_rw, 1, N_d1a), Line(P_rw, 2, N_d1b), Line(P_rw, 1, N_d2a),
      Line(P_ro, 2, N_d1b), Line(P_rw, 1, N_x), Line(P_dir, 0, N_d1dir) }

\* longest member list
MaxLines == 2
\* runs of taccrec in one behaviour
MaxRuns == 2

\* the datasets a member name can point at, and the wfile keys of a table
DsNames == {"d1", "d2", "x"}
WfileKeys == {<<"a">>, <<"b">>}

\* dssdb.wfile_<dsid>: to_regclass answers NULL for NoTable; rows[k] is the tid
\* of the row with wfile = k (0: not in a tar file yet)
NoTable == [exists |-> FALSE, rows |-> [k \in WfileKeys |-> 0]]
Table(rows) == [exists |-> TRUE, rows |-> rows]

\* ------------------------------------------------------------------------
\* taccrec.py: get_tar_summary_and_details
\* ------------------------------------------------------------------------
\* line.startswith('-rw')
StartsWithRw(perms) ==
    Len(perms) >= 3 /\ perms[1] = "-" /\ perms[2] = "r" /\ perms[3] = "w"

\* name.endswith('/')
EndsWithSlash(name) == Len(name) >= 2 /\ name[Len(name)] = ""

\* lines 20-33: the lines that are not passed over
KeptLine(l) ==
    /\ StartsWithRw(l.perms)
    /\ l.name # <<"">>
    /\ ~EndsWithSlash(l.name)

\* line 41
RootOf(name) == name[1]

RECURSIVE SumLineSizes(_)
SumLineSizes(ls) == IF ls = <<>> THEN 0 ELSE Head(ls).size + SumLineSizes(Tail(ls))

\* os.path.basename(member_list_path).replace('.mbr', '')
TarFileName(mbr) == [stem |-> mbr.stem, ext |-> IF mbr.ext = "tar.mbr" THEN "tar" ELSE mbr.ext]

\* lines 16-69, for a member list that is a file holding lines ls, at time now
get_tar_summary_and_details(mbr, ls, now) ==
    LET kept == SelectSeq(ls, KeptLine)
        names == [i \in 1 .. Len(kept) |-> kept[i].name]
    IN  [ summary |->
            [ tfile |-> TarFileName(mbr),
              data_size |-> SumLineSizes(kept),
              wcount |-> Len(kept),
              stamp |-> now,
              note |-> names,
              dsids |-> {RootOf(names[i]) : i \in 1 .. Len(names)},
              dsid |-> IF ls # <<>> /\ KeptLine(ls[1]) THEN RootOf(ls[1].name) ELSE None ],
          member_details |-> names ]

\* ------------------------------------------------------------------------
\* taccrec.py: insert_tfile_row, the SQL it sends
\* ------------------------------------------------------------------------
\* lines 75-87: the columns other than tid
RowValues(sm, uid) ==
    [ tfile |-> sm.tfile, data_size |-> sm.data_size, wcount |-> sm.wcount,
      stamp |-> sm.stamp, file_format |-> "tar", status |-> "T", uid |-> uid,
      dsid |-> sm.dsid, dsids |-> sm.dsids, note |-> sm.note ]

WithTid(vals, t) ==
    [ tid |-> t, tfile |-> vals.tfile, data_size |-> vals.data_size, wcount |-> vals.wcount,
      stamp |-> vals.stamp, file_format |-> vals.file_format, status |-> vals.status,
      uid |-> vals.uid, dsid |-> vals.dsid, dsids |-> vals.dsids, note |-> vals.note ]

RowsNamed(tfile, name) == {r \in tfile : r.tfile = name}

\* lines 89-95: INSERT INTO dssdb.tfile ... [ON CONFLICT (tfile) DO UPDATE SET ...]
\* ON CONFLICT written as delete and insert: the row gets a new tid
InsertTfileReplaces(tfile, vals, seq, update_on_conflict) ==
    [ok |-> TRUE, tfile |-> (tfile \ RowsNamed(tfile, vals.tfile)) \cup {WithTid(vals, seq + 1)}]

\* answers the table, or a unique violation (ok = FALSE) that leaves it as it was
InsertTfile(tfile, vals, seq, update_on_conflict) ==
    IF RowsNamed(tfile, vals.tfile) = {}
    THEN [ok |-> TRUE, tfile |-> tfile \cup {WithTid(vals, seq)}]
    ELSE IF update_on_conflict
         THEN [ok |-> TRUE,
               tfile |-> {IF r.tfile = vals.tfile THEN WithTid(vals, r.tid) ELSE r : r \in tfile}]
         ELSE [ok |-> FALSE, tfile |-> tfile]

\* lines 98-100: SELECT tid FROM dssdb.tfile WHERE tfile=%s
SelectTid(tfile, name) ==
    IF RowsNamed(tfile, name) = {} THEN NoTid
    ELSE (CHOOSE r \in RowsNamed(tfile, name) : TRUE).tid

\* lines 105-109
Cdsid(name) == name[1]
Wfile(name) == IF Len(name) >= 2 THEN Tail(name) ELSE <<"">>

\* line 116: UPDATE dssdb.wfile_<cdsid> SET tid=%s WHERE wfile=%s
UpdateWfile(wfile, cdsid, key, t) ==
    IF key \in DOMAIN wfile[cdsid].rows
    THEN [wfile EXCEPT ![cdsid].rows[key] = t]
    ELSE wfile

\* conn.commit() in place of conn.rollback()
ExceptClauseCommits(saved, view) == [db |-> view, tx |-> view, raise |-> TRUE]

\* lines 118-121, conn.rollback() and raise: what is committed after it (saved is
\* what was committed before, view what the connection saw), the connection's
\* view, and whether the error goes on to the caller
ExceptClause(saved, view) == [db |-> saved, tx |-> saved, raise |-> TRUE]

\* ------------------------------------------------------------------------
\* taccrec.py: main and insert_tfile_row, statement by statement
\* ------------------------------------------------------------------------
\* a line of output: what it is about
LogEntry(kind, what) == [kind |-> kind, what |-> what]

UidOfLogname == "uid"

\* no summary yet
NoSummary ==
    [tfile |-> TarFileName(MbrP1), data_size |-> 0, wcount |-> 0, stamp |-> 0,
     note |-> <<>>, dsids |-> {}, dsid |-> None]

\* member_details is None or a list; None and the empty list take the same
\* branch at line 102, and both are <<>> here
IdleLocals ==
    /\ cpc = "idle"
    /\ member_list = MbrP1 /\ no_update = FALSE
    /\ summary = NoSummary /\ member_details = <<>>
    /\ tid = NoTid /\ mi = 1
    /\ result = "none" /\ open_conns = 0 /\ fault = "none"
    /\ committed = FALSE
    /\ rout = <<>>

CatInit ==
    /\ fs = <<>>
    /\ db = [tfile |-> {}, wfile |-> [d \in DsNames |-> NoTable]]
    /\ tx = db
    /\ tid_seq = 1
    /\ clock = 0
    /\ db0 = db
    /\ calls = <<>>
    /\ IdleLocals

\* lines 145-168: a run of taccrec begins
RecStart(mbr, nu) ==
    /\ cpc = "idle" /\ clock < MaxRuns
    /\ clock' = clock + 1
    /\ member_list' = mbr /\ no_update' = nu
    /\ db0' = db /\ fault' = "none" /\ committed' = FALSE
    /\ tid' = NoTid /\ mi' = 1 /\ open_conns' = 0
    /\ IF ~Exists(fs, mbr)
       THEN /\ summary' = NoSummary /\ member_details' = <<>>
            /\ result' = "usage" /\ cpc' = "done"
       ELSE LET sd == get_tar_summary_and_details(mbr, fs[mbr], clock')
            IN  /\ summary' = sd.summary
                /\ member_details' = IF nu THEN <<>> ELSE sd.member_details
                /\ result' = "running"
                /\ cpc' = IF nu THEN "check" ELSE "uid"
    /\ rout' = IF ~Exists(fs, mbr) THEN <<LogEntry("usage", mbr)>> ELSE <<>>
    /\ UNCHANGED <<db, tx, tid_seq, calls>>
    /\ UNCHANGED <<gvars, fsvars, tvars, wvars, tlog>>

Leave(pc, res, flt, conns) ==
    /\ cpc' = pc /\ result' = res /\ fault' = flt /\ open_conns' = conns
    /\ rout' = IF res = "error" THEN Append(rout, LogEntry("error", flt))
               ELSE IF res = "skipped" THEN Append(rout, LogEntry("exists", summary.tfile))
               ELSE rout
    /\ UNCHANGED <<member_list, no_update, summary, member_details, tid, mi, db0, calls,
                   committed>>
    /\ UNCHANGED <<gvars, fsvars, dbvars, tvars, kvars, wvars, tlog>>

TfileExistsNever(tfile, name) == FALSE

\* lines 174-175: SELECT 1 FROM dssdb.tfile WHERE tfile=%s LIMIT 1, fetchone()
TfileExists(tfile, name) == RowsNamed(tfile, name) # {}

\* lines 170-183, psycopg2.connect raises: the except clause returns
RecCheckConnectFails ==
    /\ cpc = "check"
    /\ Leave("done", "error", "check_connect", open_conns)

\* lines 170-183, cur.execute raises: the except clause returns, nothing was closed
RecCheckQueryFails ==
    /\ cpc = "check"
    /\ Leave("done", "error", "check_query", open_conns + 1)

\* lines 174-180: the row exists, nothing is done
RecCheckExists ==
    /\ cpc = "check"
    /\ TfileExists(db.tfile, summary.tfile)
    /\ Leave("done", "skipped", fault, open_conns)

\* lines 174-178: no such row
RecCheckAbsent ==
    /\ cpc = "check"
    /\ ~TfileExists(db.tfile, summary.tfile)
    /\ Leave("uid", result, fault, open_conns)

\* lines 126-143 and 184-188: connect raises, or the logname is not in dssgrp
RecUidFails ==
    /\ cpc = "uid"
    /\ Leave("done", "error", "uid", open_conns)

\* lines 133-136: cur.execute raises, nothing was closed
RecUidQueryFails ==
    /\ cpc = "uid"
    /\ Leave("done", "error", "uid_query", open_conns + 1)

\* lines 133-141
RecUidFound ==
    /\ cpc = "uid"
    /\ Leave("ins_connect", result, fault, open_conns)

\* line 73, psycopg2.connect raises (outside the try)
InsConnectFails ==
    /\ cpc = "ins_connect"
    /\ Leave("done", "raised", "connect", open_conns)

\* lines 73-74
InsConnect ==
    /\ cpc = "ins_connect"
    /\ cpc' = "ins_execute"
    /\ tx' = db
    /\ open_conns' = open_conns + 1
    /\ UNCHANGED <<db, tid_seq, clock>>
    /\ UNCHANGED <<member_list, no_update, summary, member_details, tid, mi, result,
                   fault, db0, calls, committed>>
    /\ UNCHANGED <<gvars, fsvars, tvars, kvars, wvars, ovars>>

\* a statement of the try block raises: on to the except clause
Raises(pc, flt) ==
    /\ cpc = pc
    /\ cpc' = "ins_except"
    /\ fault' = flt
    /\ UNCHANGED <<member_list, no_update, summary, member_details, tid, mi, result,
                   open_conns, db0, calls, committed>>
    /\ UNCHANGED <<gvars, fsvars, dbvars, tvars, kvars, wvars, ovars>>

\* line 95: the INSERT of main (update_on_conflict=True)
InsExecute ==
    /\ cpc = "ins_execute"
    /\ LET t == InsertTfile(tx.tfile, RowValues(summary, UidOfLogname), tid_seq, TRUE)
       IN  /\ t.ok
           /\ tx' = [tx EXCEPT !.tfile = t.tfile]
           /\ tid_seq' = IF RowsNamed(tx.tfile, summary.tfile) = {} THEN tid_seq + 1 ELSE tid_seq
    /\ cpc' = "ins_commit1"
    /\ UNCHANGED <<db, clock>>
    /\ UNCHANGED <<member_list, no_update, summary, member_details, tid, mi, result,
                   open_conns, fault, db0, calls, committed>>
    /\ UNCHANGED <<gvars, fsvars, tvars, kvars, wvars, ovars>>

InsExecuteFails == Raises("ins_execute", "execute")

\* line 96
InsCommit1 ==
    /\ cpc = "ins_commit1"
    /\ db' = tx
    /\ committed' = TRUE
    /\ cpc' = "ins_select"
    /\ UNCHANGED <<tx, tid_seq, clock>>
    /\ UNCHANGED <<member_list, no_update, summary, member_details, tid, mi, result,
                   open_conns, fault, db0, calls>>
    /\ UNCHANGED <<gvars, fsvars, tvars, kvars, wvars, ovars>>

InsCommit1Fails == Raises("ins_commit1", "commit1")

\* lines 98-102
InsSelect ==
    /\ cpc = "ins_select"
    /\ tid' = SelectTid(tx.tfile, summary.tfile)
    /\ calls' = Append(calls, [tfile |-> summary.tfile, tid |-> tid'])
    /\ cpc' = IF member_details # <<>> /\ tid' # NoTid
              THEN "ins_loop" ELSE "ins_commit2"
    /\ UNCHANGED <<member_list, no_update, summary, member_details, mi, result,
                   open_conns, fault, db0, committed>>
    /\ UNCHANGED <<gvars, fsvars, dbvars, tvars, kvars, wvars, ovars>>

InsSelectFails == Raises("ins_select", "select")

AfterMember ==
    /\ mi' = mi + 1
    /\ cpc' = IF mi + 1 > Len(member_details) THEN "ins_commit2" ELSE "ins_loop"
    /\ UNCHANGED <<member_list, no_update, summary, member_details, tid, result,
                   open_conns, fault, db0, calls, committed>>
    /\ UNCHANGED <<gvars, fsvars, tvars, kvars, wvars, ovars>>

\* lines 103-114: dssdb.wfile_<cdsid> is no table, on to the next member
InsMemberNoTable ==
    /\ cpc = "ins_loop"
    /\ ~tx.wfile[Cdsid(member_details[mi])].exists
    /\ AfterMember
    /\ UNCHANGED dbvars

\* lines 103-116
InsMemberUpdate ==
    /\ cpc = "ins_loop"
    /\ tx.wfile[Cdsid(member_details[mi])].exists
    /\ tx' = [tx EXCEPT !.wfile = UpdateWfile(tx.wfile, Cdsid(member_details[mi]),
                                               Wfile(member_details[mi]), tid)]
    /\ AfterMember
    /\ UNCHANGED <<db, tid_seq, clock>>

\* line 111 or line 116 raises
InsMemberFails == Raises("ins_loop", "update")

\* line 117
InsCommit2 ==
    /\ cpc = "ins_commit2"
    /\ db' = tx
    /\ cpc' = "ins_finally"
    /\ UNCHANGED <<tx, tid_seq, clock>>
    /\ UNCHANGED <<member_list, no_update, summary, member_details, tid, mi, result,
                   open_conns, fault, db0, calls, committed>>
    /\ UNCHANGED <<gvars, fsvars, tvars, kvars, wvars, ovars>>

InsCommit2Fails == Raises("ins_commit2", "commit2")

\* lines 118-121
InsExcept ==
    /\ cpc = "ins_except"
    /\ db' = ExceptClause(db, tx).db
    /\ tx' = ExceptClause(db, tx).tx
    /\ result' = IF ExceptClause(db, tx).raise THEN "raising" ELSE result
    /\ cpc' = "ins_finally"
    /\ rout' = Append(rout, LogEntry("database_error", fault))
    /\ UNCHANGED <<tid_seq, clock>>
    /\ UNCHANGED <<member_list, no_update, summary, member_details, tid, mi,
                   open_conns, fault, db0, calls, committed>>
    /\ UNCHANGED <<gvars, fsvars, tvars, kvars, wvars, tlog>>

\* lines 122-124, then the error leaves main or line 198 prints
InsFinally ==
    /\ cpc = "ins_finally"
    /\ open_conns' = open_conns - 1
    /\ tx' = db
    /\ result' = IF result = "raising" THEN "raised" ELSE "ok"
    /\ cpc' = "done"
    /\ rout' = IF result = "raising" THEN rout ELSE Append(rout, LogEntry("inserted", summary.tfile))
    /\ UNCHANGED <<db, tid_seq, clock>>
    /\ UNCHANGED <<member_list, no_update, summary, member_details, tid, mi,
                   fault, db0, calls, committed>>
    /\ UNCHANGED <<gvars, fsvars, tvars, kvars, wvars, tlog>>

\* the process is gone
RecExit ==
    /\ cpc = "done"
    /\ cpc' = "idle"
    /\ member_list' = MbrP1 /\ no_update' = FALSE
    /\ summary' = NoSummary /\ member_details' = <<>>
    /\ tid' = NoTid /\ mi' = 1
    /\ result' = "none" /\ open_conns' = 0 /\ fault' = "none"
    /\ committed' = FALSE
    /\ rout' = <<>>
    /\ UNCHANGED <<db0, calls>>
    /\ UNCHANGED <<gvars, fsvars, dbvars, tvars, wvars, tlog>>

RecNext ==
    \/ \E mbr \in {MbrP1, MbrP2}, nu \in BOOLEAN : RecStart(mbr, nu) /\ UNCHANGED kvars
    \/ RecCheckConnectFails \/ RecCheckQueryFails \/ RecCheckExists \/ RecCheckAbsent
    \/ RecUidFails \/ RecUidQueryFails \/ RecUidFound
    \/ InsConnectFails \/ InsConnect
    \/ InsExecute \/ InsExecuteFails
    \/ InsCommit1 \/ InsCommit1Fails
    \/ InsSelect \/ InsSelectFails
    \/ InsMemberNoTable \/ InsMemberUpdate \/ InsMemberFails
    \/ InsCommit2 \/ InsCommit2Fails
    \/ InsExcept \/ InsFinally
    \/ RecExit /\ UNCHANGED kvars

\* the batcher is not part of a catalog run
GroupIdle ==
    /\ files = <<>> /\ min_size = 0 /\ max_size = 1
    /\ batches = <<>> /\ current_batch = <<>> /\ current_size = 0
    /\ fi = 1 /\ gpc = "done" /\ skiplog = <<>>

\* ------------------------------------------------------------------------
\* tacctar.py: the dataset files and the archive names
\* ------------------------------------------------------------------------
\* batches of one run of tar_batches_across_dirs or tar_batches
MaxBatches == 2
\* runs of tacctar in one behaviour
MaxTarRuns == 2

\* --tar-root; a file found by the walk is the list of the parts of its path
TarRoot == "/tr"
Abs(name) == <<TarRoot>> \o name

\* line 216 and 224: os.path.relpath(f, tar_root)
RelToRoot(f) == Tail(f)

\* lines 85-86 and 94-95: os.path.join(dataset_name, os.path.relpath(f, dataset_path)),
\* dataset_path being <tar_root>/<dsid>
ArcnameInDataset(f, dataset_name) == <<dataset_name>> \o Tail(Tail(f))

\* line 248: os.path.join(tar_root, rel_path)
JoinRoot(rel) == <<TarRoot>> \o rel

\* the order of the walk over d1 and d2
WalkAll == <<Abs(N_d1a), Abs(N_d1b), Abs(N_d2a)>>
SrcFiles == {WalkAll[i] : i \in 1 .. Len(WalkAll)}

\* the permission bits of the files: 0o644 and 0o444
ModeOf(f) == IF f = Abs(N_d1b) THEN 292 ELSE 420
SizeOf(f) == IF f = Abs(N_d1b) THEN 2 ELSE 1

\* the directory (the dataset) a file is in
DatasetOf(f) == f[2]

\* the characters of a directory name
Chars(d) ==
    CASE d = "d1" -> <<"d", "1">>
      [] d = "d10" -> <<"d", "1", "0">>
      [] d = "d2" -> <<"d", "2">>
      [] d = "d3" -> <<"d", "3">>
      [] OTHER -> <<d>>

\* line 197: str(f_path).startswith(str(dataset_path)), for a file
\* <tar_root>/<directory>/... and the dataset path <tar_root>/<d>: no separator
\* is looked for after the prefix
StartsWithPath(f, d) ==
    /\ Len(Chars(d)) <= Len(Chars(f[2]))
    /\ SubSeq(Chars(f[2]), 1, Len(Chars(d))) = Chars(d)

\* lines 195-199: the name of the first of dataset_dir_paths the file's path
\* starts with (dataset_ids is None in main, so it is the directory's name);
\* the empty set when there is none
MatchedNames(f, dataset_dir_paths) ==
    LET hits == {i \in 1 .. Len(dataset_dir_paths) : StartsWithPath(f, dataset_dir_paths[i])}
    IN  IF hits = {} THEN {}
        ELSE {dataset_dir_paths[CHOOSE i \in hits : \A j \in hits : i <= j]}

\* sorted() of dataset names
DsRank(d) == CASE d = "d1" -> 1 [] d = "d10" -> 2 [] d = "d2" -> 3 [] d = "d3" -> 4 [] OTHER -> 5
RECURSIVE SortedNames(_)
SortedNames(S) ==
    IF S = {} THEN <<>>
    ELSE LET m == CHOOSE x \in S : \A y \in S : DsRank(x) <= DsRank(y)
         IN  <<m>> \o SortedNames(S \ {m})

\* lines 193-208
BatchPrefix(batch, dataset_dir_paths) ==
    LET batch_dataset_names ==
            UNION {MatchedNames(batch[i], dataset_dir_paths) : i \in 1 .. Len(batch)}
        dataset_name_count == Cardinality(batch_dataset_names)
    IN  IF dataset_name_count > 3
        THEN CollapsedPrefix(SortedNames(batch_dataset_names)[1], dataset_name_count)
        ELSE IF batch_dataset_names # {}
             THEN JoinedPrefix(SortedNames(batch_dataset_names))
             ELSE JoinedPrefix(<<"batch">>)

\* lines 203-210: tar_name without its suffix
AcrossStem(batch, idx, dataset_dir_paths) ==
    Stem(BatchPrefix(batch, dataset_dir_paths), idx, Len(batch))

\* the dataset_paths of the runs over d1 and d2
TarDirs == <<"d1", "d2">>

\* lines 77-79
SingleStem(dataset_name, batch, idx) == Stem(JoinedPrefix(<<dataset_name>>), idx, Len(batch))

\* line 79 and 210: tar_name.replace(".tar", ".batch"); line 238:
\* batch_file.replace('.batch', '.tar'); line 239: tar_file + '.mbr'
BatchOfTar(p) == [p EXCEPT !.ext = IF @ = "tar" THEN "batch" ELSE @]
TarOfBatch(p) == [p EXCEPT !.ext = IF @ = "batch" THEN "tar" ELSE @]
MbrOfTar(p) == [p EXCEPT !.ext = IF @ = "tar" THEN "tar.mbr" ELSE @]

\* the ways group_files_by_size can cut a list into at most k batches
RECURSIVE Splits(_, _)
Splits(fl, k) ==
    IF fl = <<>> THEN {<<>>}
    ELSE IF k = 0 THEN {}
    ELSE UNION { {<<SubSeq(fl, 1, i)>> \o r : r \in Splits(SubSeq(fl, i + 1, Len(fl)), k - 1)} :
                 i \in 1 .. Len(fl) }

\* the same, and with the empty first batch line 59 makes when the first file
\* alone is above max_size
BatchLists(fl) ==
    Splits(fl, MaxBatches) \cup {<<<<>>>> \o r : r \in Splits(fl, MaxBatches - 1)}

\* ------------------------------------------------------------------------
\* tacctar.py: collect_all_files and the walk of process_directory_tree
\* ------------------------------------------------------------------------
\* runs of the collector in one behaviour
MaxWalks == 1

DatasetFiles(ds) == SelectSeq(WalkAll, LAMBDA f : DatasetOf(f) = ds)

\* os.walk(d): the files of the dataset that are there
Walk(d) == SelectSeq(DatasetFiles(d), LAMBDA f : src[f].exists)

\* a key under the tar root in place of one under the dataset directory
RelKeyFromRoot(fpath) == Tail(fpath)

\* lines 114 and 167: os.path.relpath(fpath, d), d being <tar_root>/<dataset>
RelKey(fpath) == Tail(Tail(fpath))

\* lines 118-119 and 171-172:
\* SELECT 1 FROM dssdb.wfile_<dataset_name> WHERE wfile=%s AND tid > 0 LIMIT 1
Tarred(wfile, dataset_name, relpath) ==
    /\ relpath \in DOMAIN wfile[dataset_name].rows
    /\ wfile[dataset_name].rows[relpath] > 0

NoWalk == [mode |-> "none", dirs |-> <<>>, check_tarred |-> FALSE]

ColIdle ==
    /\ wpc = "idle" /\ wargs = NoWalk
    /\ wd = 1 /\ wfi = 1 /\ wcur = "none"
    /\ out = <<>> /\ wlog = <<>> /\ wconns = 0
    /\ walks = 0

\* lines 273-281 and 306-308 (mode "collect", --input-file) or 319-325 (mode
\* "tree", one of --dataset-ids): db_params is set when --check-tarred is given
ColStart(mode, dirs, ct) ==
    /\ wpc = "idle" /\ walks < MaxWalks
    /\ walks' = walks + 1
    /\ wargs' = [mode |-> mode, dirs |-> dirs, check_tarred |-> ct]
    /\ wd' = 1 /\ wfi' = 1 /\ wcur' = "none"
    /\ out' = <<>> /\ wlog' = <<>> /\ wconns' = 0
    /\ wpc' = "connect"
    /\ UNCHANGED <<gvars, fsvars, dbvars, cvars, tvars, kvars, ovars>>

\* lines 99 and 154: dsid, or os.path.basename(os.path.abspath(d))
ColDataset == wargs.dirs[wd]

ColFrame == UNCHANGED <<wargs, wd, walks>> /\ UNCHANGED <<gvars, fsvars, dbvars, cvars, tvars, kvars, ovars>>

\* lines 103 and 157: db_params is None
ColNoCheck ==
    /\ wpc = "connect" /\ ~wargs.check_tarred
    /\ wcur' = "none" /\ wfi' = 1 /\ wpc' = "walk"
    /\ UNCHANGED <<out, wlog, wconns>>
    /\ ColFrame

\* lines 105-107 and 160-161
ColConnect ==
    /\ wpc = "connect" /\ wargs.check_tarred
    /\ wcur' = "open" /\ wconns' = wconns + 1
    /\ wfi' = 1 /\ wpc' = "walk"
    /\ UNCHANGED <<out, wlog>>
    /\ ColFrame

\* lines 108-110 and 162-164: connect raises, it is logged, conn = cur = None
ColConnectFails ==
    /\ wpc = "connect" /\ wargs.check_tarred
    /\ wcur' = "none"
    /\ wlog' = Append(wlog, LogEntry("connect_error", ColDataset))
    /\ wfi' = 1 /\ wpc' = "walk"
    /\ UNCHANGED <<out, wconns>>
    /\ ColFrame

ColFile == Walk(ColDataset)[wfi]

\* lines 116-122 and 169-175: the row is there with tid > 0, continue
ColSkip ==
    /\ wpc = "walk" /\ wfi <= Len(Walk(ColDataset))
    /\ wcur = "open"
    /\ db.wfile[ColDataset].exists
    /\ Tarred(db.wfile, ColDataset, RelKey(ColFile))
    /\ wlog' = Append(wlog, LogEntry("skip", ColFile))
    /\ wfi' = wfi + 1
    /\ UNCHANGED <<wpc, wcur, out, wconns>>
    /\ ColFrame

\* lines 116-120, 125 and 169-173, 178: no such row, the file is kept
ColKeep ==
    /\ wpc = "walk" /\ wfi <= Len(Walk(ColDataset))
    /\ wcur = "open"
    /\ db.wfile[ColDataset].exists
    /\ ~Tarred(db.wfile, ColDataset, RelKey(ColFile))
    /\ out' = Append(out, ColFile)
    /\ wfi' = wfi + 1
    /\ UNCHANGED <<wpc, wcur, wlog, wconns>>
    /\ ColFrame

\* lines 123-125 and 176-178: cur.execute raises (there is no such table, or
\* the server fails), it is logged and the file is kept; the connection's
\* transaction is aborted from then on, and with it every later query of
\* the dataset
ColQueryFails ==
    /\ wpc = "walk" /\ wfi <= Len(Walk(ColDataset))
    /\ wcur \in {"open", "aborted"}
    /\ wcur' = "aborted"
    /\ wlog' = Append(wlog, LogEntry("query_error", ColFile))
    /\ out' = Append(out, ColFile)
    /\ wfi' = wfi + 1
    /\ UNCHANGED <<wpc, wconns>>
    /\ ColFrame

\* lines 116, 125 and 169, 178: cur is None
ColPass ==
    /\ wpc = "walk" /\ wfi <= Len(Walk(ColDataset))
    /\ wcur = "none"
    /\ out' = Append(out, ColFile)
    /\ wfi' = wfi + 1
    /\ UNCHANGED <<wpc, wcur, wlog, wconns>>
    /\ ColFrame

\* lines 126-129 and 179-182: cur.close(), conn.close(); the next directory
ColClose ==
    /\ wpc = "walk" /\ wfi > Len(Walk(ColDataset))
    /\ wconns' = IF wcur # "none" THEN wconns - 1 ELSE wconns
    /\ wcur' = "none"
    /\ wd' = wd + 1 /\ wfi' = 1
    /\ wpc' = IF wd + 1 > Len(wargs.dirs) THEN "done" ELSE "connect"
    /\ UNCHANGED <<wargs, walks, out, wlog>>
    /\ UNCHANGED <<gvars, fsvars, dbvars, cvars, tvars, kvars, ovars>>

\* the process ends
ColExit ==
    /\ wpc = "done"
    /\ wpc' = "idle" /\ wargs' = NoWalk
    /\ wd' = 1 /\ wfi' = 1 /\ wcur' = "none"
    /\ out' = <<>> /\ wlog' = <<>> /\ wconns' = 0
    /\ UNCHANGED walks
    /\ UNCHANGED <<gvars, fsvars, dbvars, cvars, tvars, kvars, ovars>>

\* ------------------------------------------------------------------------
\* tacctar.py: the tar file and the member list
\* ------------------------------------------------------------------------
\* tar.add(f, arcname=...) of a regular file
Member(arcname, f) == [name |-> arcname, size |-> src[f].size, mode |-> src[f].mode]

\* oct(n): "0o" and the octal digits
RECURSIVE OctDigits(_)
OctDigits(n) ==
    IF n < 8 THEN <<CASE n = 0 -> "0" [] n = 1 -> "1" [] n = 2 -> "2" [] n = 3 -> "3"
                      [] n = 4 -> "4" [] n = 5 -> "5" [] n = 6 -> "6" [] n = 7 -> "7">>
    ELSE OctDigits(n \div 8) \o OctDigits(n % 8)
Oct(n) == <<"0", "o">> \o OctDigits(n)

\* s[-4:]
Last4(s) == IF Len(s) <= 4 THEN s ELSE SubSeq(s, Len(s) - 3, Len(s))

\* lines 257-264: the line written for a member (a regular file)
DumpLine(m) == Line(<<"-">> \o Last4(Oct(m.mode)), m.size, m.name)

SkipTarNever(fsys, mbr_file) == FALSE

\* line 240: the member list is there, nothing is done
SkipTar(fsys, mbr_file) == Exists(fsys, mbr_file)

NoArgs == [mode |-> "none", tar_batch |-> FALSE, batches |-> <<>>, dataset |-> None,
           dataset_paths |-> <<>>, batch_file |-> MbrP1]

TarIdle ==
    /\ tpc = "idle" /\ targs = NoArgs
    /\ bidx = 1 /\ ti = 1 /\ file_list = <<>>
    /\ tlog = <<>>

TarInit ==
    /\ src = [f \in SrcFiles |-> [exists |-> TRUE, size |-> SizeOf(f), mode |-> ModeOf(f)]]
    /\ TarIdle
    /\ ColIdle
    /\ truns = 0
    /\ fs0 = fs
    /\ phase = "none" /\ kills = 0

\* lines 306-318 (mode "across") and 320-327 with lines 130-133 (mode "single"):
\* the batches are there, tar_batches_across_dirs or tar_batches begins
TarStart(mode, tb, ds, dirs, bl) ==
    /\ tpc = "idle" /\ truns < MaxTarRuns
    /\ truns' = truns + 1
    /\ fs0' = fs
    /\ targs' = [mode |-> mode, tar_batch |-> tb, batches |-> bl, dataset |-> ds,
                 dataset_paths |-> dirs, batch_file |-> MbrP1]
    /\ bidx' = 1 /\ ti' = 1 /\ file_list' = <<>>
    /\ tpc' = IF bl = <<>> THEN "done" ELSE "open"
    /\ tlog' = <<>>
    /\ UNCHANGED <<fs, src>>
    /\ UNCHANGED <<gvars, dbvars, cvars, kvars, wvars, rout>>

CurBatch == targs.batches[bidx]
CurStem == IF targs.mode = "across" THEN AcrossStem(CurBatch, bidx, targs.dataset_paths)
           ELSE SingleStem(targs.dataset, CurBatch, bidx)
CurTar == Path(CurStem, "tar")
CurArcname(f) == IF targs.mode = "across" THEN RelToRoot(f)
                 ELSE ArcnameInDataset(f, targs.dataset)

\* lines 80-82 and 211-213: tarfile.open(tar_name, "w")
TbOpenTar ==
    /\ tpc = "open" /\ targs.tar_batch
    /\ fs' = WriteFile(fs, CurTar, <<>>)
    /\ tpc' = "add" /\ ti' = 1
    /\ UNCHANGED <<src, targs, bidx, file_list, truns, fs0>>
    /\ UNCHANGED <<gvars, dbvars, cvars, kvars, wvars, ovars>>

\* lines 90-92 and 220-222: open(batch_name, "w")
TbOpenBatch ==
    /\ tpc = "open" /\ ~targs.tar_batch
    /\ fs' = WriteFile(fs, BatchOfTar(CurTar), <<>>)
    /\ tpc' = "write" /\ ti' = 1
    /\ UNCHANGED <<src, targs, bidx, file_list, truns, fs0>>
    /\ UNCHANGED <<gvars, dbvars, cvars, kvars, wvars, ovars>>

\* lines 83-87 and 214-217: tar.add
TbAdd ==
    /\ tpc = "add" /\ ti <= Len(CurBatch)
    /\ src[CurBatch[ti]].exists
    /\ fs' = WriteFile(fs, CurTar, Append(fs[CurTar], Member(CurArcname(CurBatch[ti]), CurBatch[ti])))
    /\ ti' = ti + 1
    /\ UNCHANGED <<src, tpc, targs, bidx, file_list, truns, fs0>>
    /\ UNCHANGED <<gvars, dbvars, cvars, kvars, wvars, ovars>>

\* the except clause around the loop in place of inside it
AbortBatch(i, n) == n + 1

\* lines 83-89, 214-219 and 247-252: the try is inside the for loop, so after the
\* warning the loop goes on with the next of the n files
NextAfterFailure(i, n) == i + 1

\* lines 88-89 and 218-219: tar.add raises, a warning is logged
TbAddFails ==
    /\ tpc = "add" /\ ti <= Len(CurBatch)
    /\ ~src[CurBatch[ti]].exists
    /\ ti' = NextAfterFailure(ti, Len(CurBatch))
    /\ tlog' = Append(tlog, LogEntry("add_failed", CurBatch[ti]))
    /\ UNCHANGED <<fs, src, tpc, targs, bidx, file_list, truns, fs0>>
    /\ UNCHANGED <<gvars, dbvars, cvars, kvars, wvars, rout>>

\* lines 93-96 and 223-225: bf.write(arcname + "\n")
TbWrite ==
    /\ tpc = "write" /\ ti <= Len(CurBatch)
    /\ fs' = WriteFile(fs, BatchOfTar(CurTar),
                       Append(fs[BatchOfTar(CurTar)], CurArcname(CurBatch[ti])))
    /\ ti' = ti + 1
    /\ UNCHANGED <<src, tpc, targs, bidx, file_list, truns, fs0>>
    /\ UNCHANGED <<gvars, dbvars, cvars, kvars, wvars, ovars>>

\* the with block ends, on to the next batch
TbClose ==
    /\ tpc \in {"add", "write"} /\ ti > Len(CurBatch)
    /\ bidx' = bidx + 1 /\ ti' = 1
    /\ tpc' = IF bidx + 1 > Len(targs.batches) THEN "done" ELSE "open"
    /\ UNCHANGED <<fs, src, targs, file_list, truns, fs0>>
    /\ UNCHANGED <<gvars, dbvars, cvars, kvars, wvars, ovars>>

\* lines 296-304: main calls tar_batch_file for a batch file
BfStart(bf) ==
    /\ tpc = "idle" /\ truns < MaxTarRuns
    /\ Exists(fs, bf) /\ bf.ext = "batch"
    /\ truns' = truns + 1
    /\ fs0' = fs
    /\ targs' = [mode |-> "batchfile", tar_batch |-> TRUE, batches |-> <<>>, dataset |-> None,
                 dataset_paths |-> <<>>, batch_file |-> bf]
    /\ bidx' = 1 /\ ti' = 1 /\ file_list' = <<>>
    /\ tpc' = "bf_check"
    /\ tlog' = <<>>
    /\ UNCHANGED <<fs, src>>
    /\ UNCHANGED <<gvars, dbvars, cvars, wvars, rout>>

BfTar == TarOfBatch(targs.batch_file)
BfMbr == MbrOfTar(BfTar)

\* lines 240-242
BfSkip ==
    /\ tpc = "bf_check"
    /\ SkipTar(fs, BfMbr)
    /\ tpc' = "done"
    /\ tlog' = Append(tlog, LogEntry("mbr_exists", BfMbr))
    /\ UNCHANGED <<fs, src, targs, bidx, ti, file_list, truns, fs0>>
    /\ UNCHANGED <<gvars, dbvars, cvars, kvars, wvars, rout>>

\* lines 243-246: the batch file is read, tarfile.open(tar_file, "w")
BfOpenTar ==
    /\ tpc = "bf_check"
    /\ ~SkipTar(fs, BfMbr)
    /\ file_list' = fs[targs.batch_file]
    /\ fs' = WriteFile(fs, BfTar, <<>>)
    /\ tpc' = "bf_add" /\ ti' = 1
    /\ UNCHANGED <<src, targs, bidx, truns, fs0>>
    /\ UNCHANGED <<gvars, dbvars, cvars, kvars, wvars, ovars>>

\* lines 247-250
BfAdd ==
    /\ tpc = "bf_add" /\ ti <= Len(file_list)
    /\ src[JoinRoot(file_list[ti])].exists
    /\ fs' = WriteFile(fs, BfTar, Append(fs[BfTar], Member(file_list[ti], JoinRoot(file_list[ti]))))
    /\ ti' = ti + 1
    /\ UNCHANGED <<src, tpc, targs, bidx, file_list, truns, fs0>>
    /\ UNCHANGED <<gvars, dbvars, cvars, kvars, wvars, ovars>>

\* lines 251-252
BfAddFails ==
    /\ tpc = "bf_add" /\ ti <= Len(file_list)
    /\ ~src[JoinRoot(file_list[ti])].exists
    /\ ti' = NextAfterFailure(ti, Len(file_list))
    /\ tlog' = Append(tlog, LogEntry("add_failed", JoinRoot(file_list[ti])))
    /\ UNCHANGED <<fs, src, tpc, targs, bidx, file_list, truns, fs0>>
    /\ UNCHANGED <<gvars, dbvars, cvars, kvars, wvars, rout>>

\* lines 254-255: the tar file is closed and opened again, open(mbr_file, "w")
BfOpenMbr ==
    /\ tpc = "bf_add" /\ ti > Len(file_list)
    /\ fs' = WriteFile(fs, BfMbr, <<>>)
    /\ tpc' = "bf_dump" /\ ti' = 1
    /\ UNCHANGED <<src, targs, bidx, file_list, truns, fs0>>
    /\ UNCHANGED <<gvars, dbvars, cvars, kvars, wvars, ovars>>

\* lines 256-264
BfDumpLine ==
    /\ tpc = "bf_dump" /\ ti <= Len(fs[BfTar])
    /\ fs' = WriteFile(fs, BfMbr, Append(fs[BfMbr], DumpLine(fs[BfTar][ti])))
    /\ ti' = ti + 1
    /\ UNCHANGED <<src, tpc, targs, bidx, file_list, truns, fs0>>
    /\ UNCHANGED <<gvars, dbvars, cvars, kvars, wvars, ovars>>

\* the member list is closed, tar_batch_file returns
BfReturn ==
    /\ tpc = "bf_dump" /\ ti > Len(fs[BfTar])
    /\ tpc' = "done"
    /\ UNCHANGED <<fs, src, targs, bidx, ti, file_list, truns, fs0>>
    /\ UNCHANGED <<gvars, dbvars, cvars, kvars, wvars, ovars>>

\* the process ends
TarExit ==
    /\ tpc = "done"
    /\ tpc' = "idle" /\ targs' = NoArgs
    /\ bidx' = 1 /\ ti' = 1 /\ file_list' = <<>>
    /\ tlog' = <<>>
    /\ UNCHANGED <<fs, src, truns, fs0>>
    /\ UNCHANGED <<gvars, dbvars, cvars, wvars, rout>>

\* the process is killed: the files stay as they are
TarKill ==
    /\ tpc \notin {"idle", "done"}
    /\ tpc' = "idle" /\ targs' = NoArgs
    /\ bidx' = 1 /\ ti' = 1 /\ file_list' = <<>>
    /\ tlog' = <<>>
    /\ UNCHANGED <<fs, src, truns, fs0>>
    /\ UNCHANGED <<gvars, dbvars, cvars, wvars, rout>>

\* the files the collector hands over
WalkLists == {WalkAll}

TarNext ==
    \/ \E tb \in BOOLEAN, fl \in WalkLists : \E bl \in BatchLists(fl) :
          TarStart("across", tb, None, TarDirs, bl)
    \/ \E tb \in BOOLEAN, ds \in {"d1", "d2"} : \E bl \in BatchLists(DatasetFiles(ds)) :
          TarStart("single", tb, ds, <<>>, bl)
    \/ TbOpenTar \/ TbOpenBatch \/ TbAdd \/ TbAddFails \/ TbWrite \/ TbClose
    \/ \E bf \in DOMAIN fs : BfStart(bf) /\ UNCHANGED kvars
    \/ BfSkip \/ BfOpenTar \/ BfAdd \/ BfAddFails \/ BfOpenMbr \/ BfDumpLine \/ BfReturn
    \/ TarExit /\ UNCHANGED kvars
    \/ TarKill /\ UNCHANGED kvars

\* what a run without --tar-batch and a run of tar_batch_file leave for the one
\* batch of files fl, when all of them are there
BuiltFiles(fl) ==
    LET tar_file == Path(AcrossStem(fl, 1, TarDirs), "tar")
        members == [i \in 1 .. Len(fl) |->
                       [name |-> RelToRoot(fl[i]), size |-> SizeOf(fl[i]), mode |-> ModeOf(fl[i])]]
    IN  [p \in {BatchOfTar(tar_file), tar_file, MbrOfTar(tar_file)} |->
            IF p.ext = "batch" THEN [i \in 1 .. Len(fl) |-> RelToRoot(fl[i])]
            ELSE IF p.ext = "tar" THEN members
            ELSE [i \in 1 .. Len(fl) |-> DumpLine(members[i])]]

\* the output directory is empty, or holds what an earlier build of d1 left;
\* d1/b may have vanished since the walk
SpecTarInit ==
    /\ GroupIdle
    /\ fs \in {<<>>, BuiltFiles(DatasetFiles("d1"))}
    /\ db = [tfile |-> {}, wfile |-> [d \in DsNames |-> NoTable]]
    /\ tx = db /\ tid_seq = 1 /\ clock = 0 /\ db0 = db /\ calls = <<>>
    /\ IdleLocals
    /\ \E gone \in BOOLEAN :
          src = [f \in SrcFiles |->
                    [exists |-> ~(gone /\ f = Abs(N_d1b)), size |-> SizeOf(f), mode |-> ModeOf(f)]]
    /\ TarIdle
    /\ ColIdle
    /\ truns = 0
    /\ fs0 = fs
    /\ phase = "none" /\ kills = 0

SpecTar == SpecTarInit /\ [][TarNext]_vars

FreshTable == Table([k \in WfileKeys |-> 0])

\* the catalog and the member lists a run of taccrec finds: wfile_d1 holds a and
\* b, not yet tarred; wfile_d2 may be missing; there is no wfile_x
SpecCatInit ==
    /\ GroupIdle
    /\ \E ls \in SeqsUpTo(ListingLines, MaxLines) :
          fs = [p \in {MbrP1, MbrP2} |->
                   IF p = MbrP1 THEN ls ELSE <<Line(P_rw, 2, N_d1b)>>]
    /\ \E d2 \in {NoTable, FreshTable} :
          db = [tfile |-> {},
                wfile |-> [d \in DsNames |->
                              IF d = "d1" THEN FreshTable ELSE IF d = "d2" THEN d2 ELSE NoTable]]
    /\ tx = db
    /\ tid_seq = 1
    /\ clock = 0
    /\ db0 = db
    /\ calls = <<>>
    /\ IdleLocals
    /\ TarInit

SpecCat == SpecCatInit /\ [][RecNext]_vars

\* three files of 0.5, 0.6 and 0.5 TiB, min_size 1 TiB and max_size 3 TiB, in
\* tenths of a TiB
GroupExample ==
    /\ files = <<5, 6, 5>>
    /\ min_size = 10 /\ max_size = 30
    /\ batches = <<>> /\ current_batch = <<>> /\ current_size = 0
    /\ fi = 1 /\ gpc = "loop" /\ skiplog = <<>>

SpecGroupInit ==
    /\ GroupInit \/ GroupExample
    /\ CatInit
    /\ TarInit

SpecGroup == SpecGroupInit /\ [][GroupNext]_vars

\* ------------------------------------------------------------------------
\* a deferred build and its recording, killed and run again:
\* tacctar -bf <batch file>, then taccrec -mf <member list>
\* ------------------------------------------------------------------------
\* kills in one behaviour
MaxKills == 1

\* the manifest a run without --tar-batch wrote for d1
CrashBatch == Path(AcrossStem(DatasetFiles("d1"), 1, TarDirs), "batch")
CrashTar == TarOfBatch(CrashBatch)
CrashMbr == MbrOfTar(CrashTar)
CrashManifest == [i \in 1 .. Len(DatasetFiles("d1")) |-> RelToRoot(DatasetFiles("d1")[i])]

\* taccrec is killed: its connection goes, and what it had not committed with it
RecKill ==
    /\ cpc \notin {"idle", "done"}
    /\ cpc' = "idle"
    /\ member_list' = MbrP1 /\ no_update' = FALSE
    /\ summary' = NoSummary /\ member_details' = <<>>
    /\ tid' = NoTid /\ mi' = 1
    /\ result' = "none" /\ open_conns' = 0 /\ fault' = "none"
    /\ committed' = FALSE
    /\ tx' = db
    /\ rout' = <<>>
    /\ UNCHANGED <<db, tid_seq, clock, db0, calls>>
    /\ UNCHANGED <<gvars, fsvars, tvars, wvars, tlog>>

\* the operator runs both commands again from the first one
Rerun ==
    /\ kills < MaxKills
    /\ kills' = kills + 1
    /\ phase' = "build"

\* the steps of the two commands when nothing fails but the kill; a member list
\* written by tar_batch_file has no line that line 20 of taccrec.py keeps, so
\* the loop of lines 102-116 has nothing to do
CrashNext ==
    \/ phase = "build" /\ BfStart(CrashBatch) /\ UNCHANGED kvars
    \/ BfSkip \/ BfOpenTar \/ BfAdd \/ BfAddFails \/ BfOpenMbr \/ BfDumpLine \/ BfReturn
    \/ TarExit /\ phase' = "record" /\ UNCHANGED kills
    \/ TarKill /\ Rerun
    \/ phase = "record" /\ RecStart(CrashMbr, FALSE) /\ UNCHANGED kvars
    \/ RecUidFound \/ InsConnect \/ InsExecute \/ InsCommit1 \/ InsSelect
    \/ InsCommit2 \/ InsFinally
    \/ RecExit /\ phase' = "finished" /\ UNCHANGED kills
    \/ RecKill /\ Rerun

\* the manifest is there, nothing is built or recorded yet; d1/a may have
\* vanished since the manifest was written
SpecCrashInit ==
    /\ GroupIdle
    /\ fs = [p \in {CrashBatch} |-> CrashManifest]
    /\ \E d2 \in {NoTable, FreshTable} :
          db = [tfile |-> {},
                wfile |-> [d \in DsNames |->
                              IF d = "d1" THEN FreshTable ELSE IF d = "d2" THEN d2 ELSE NoTable]]
    /\ tx = db /\ tid_seq = 1 /\ clock = 0 /\ db0 = db /\ calls = <<>>
    /\ IdleLocals
    /\ \E gone \in BOOLEAN :
          src = [f \in SrcFiles |->
                    [exists |-> ~(gone /\ f = Abs(N_d1a)), size |-> SizeOf(f), mode |-> ModeOf(f)]]
    /\ TarIdle
    /\ ColIdle
    /\ truns = 0
    /\ fs0 = fs
    /\ phase = "build" /\ kills = 0

SpecCrash == SpecCrashInit /\ [][CrashNext]_vars

\* ------------------------------------------------------------------------
\* runs of taccrec on listings of d1 and d2, and runs of the collector after them
\* ------------------------------------------------------------------------
CollectListings == {Line(P_rw, 1, N_d1a), Line(P_rw, 2, N_d1b), Line(P_rw, 1, N_d2a)}

\* one process at a time; taccrec without --no-update and without a failing
\* statement
CollectNext ==
    \/ wpc = "idle" /\ (\E mbr \in {MbrP1, MbrP2} : RecStart(mbr, FALSE)) /\ UNCHANGED kvars
    \/ RecUidFound \/ InsConnect \/ InsExecute \/ InsCommit1 \/ InsSelect
    \/ InsMemberNoTable \/ InsMemberUpdate
    \/ InsCommit2 \/ InsFinally
    \/ RecExit /\ UNCHANGED kvars
    \/ cpc = "idle" /\ \E ct \in BOOLEAN, dirs \in {<<"d1">>, <<"d1", "d2">>} :
          ColStart("collect", dirs, ct)
    \/ cpc = "idle" /\ \E ct \in BOOLEAN : ColStart("tree", <<"d1">>, ct)
    \/ ColNoCheck \/ ColConnect \/ ColConnectFails
    \/ ColSkip \/ ColKeep \/ ColQueryFails \/ ColPass
    \/ ColClose \/ ColExit

SpecCollectInit ==
    /\ GroupIdle
    /\ \E ls \in SeqsUpTo(CollectListings, MaxLines) :
          fs = [p \in {MbrP1, MbrP2} |->
                   IF p = MbrP1 THEN ls ELSE <<Line(P_rw, 2, N_d1b)>>]
    /\ \E d2 \in {NoTable, FreshTable} :
          db = [tfile |-> {},
                wfile |-> [d \in DsNames |->
                              IF d = "d1" THEN FreshTable ELSE IF d = "d2" THEN d2 ELSE NoTable]]
    /\ tx = db
    /\ tid_seq = 1
    /\ clock = 0
    /\ db0 = db
    /\ calls = <<>>
    /\ IdleLocals
    /\ TarInit

SpecCollect == SpecCollectInit /\ [][CollectNext]_vars

\* ------------------------------------------------------------------------
\* one run of tar_batches_across_dirs over the datasets d1, d10, d2 and d3
\* ------------------------------------------------------------------------
NameDatasets == {"d1", "d10", "d2", "d3"}
NameFile(d) == <<TarRoot, d, "a">>

\* the lists of dataset directories an input file can give
RECURSIVE Orders(_)
Orders(S) ==
    {<<>>} \cup UNION {{<<d>> \o r : r \in Orders(S \ {d})} : d \in S}

\* lines 306-318: the files collect_all_files gives for the directories, one
\* file in each, cut into batches
NameNext ==
    \/ \E tb \in BOOLEAN, dirs \in Orders(NameDatasets) \ {<<>>} :
          \E bl \in Splits([i \in 1 .. Len(dirs) |-> NameFile(dirs[i])], MaxBatches) :
             TarStart("across", tb, None, dirs, bl)
    \/ TbOpenTar \/ TbOpenBatch \/ TbAdd \/ TbWrite \/ TbClose
    \/ TarExit /\ UNCHANGED kvars

\* an empty output directory; one run is made
SpecNameInit ==
    /\ GroupIdle
    /\ CatInit
    /\ src = [f \in {NameFile(d) : d \in NameDatasets} |-> [exists |-> TRUE, size |-> 1, mode |-> 420]]
    /\ TarIdle
    /\ ColIdle
    /\ truns = MaxTarRuns - 1
    /\ fs0 = fs
    /\ phase = "none" /\ kills = 0

SpecName == SpecNameInit /\ [][NameNext]_vars

\* ------------------------------------------------------------------------
\* Reading the result of group_files_by_size
\* ------------------------------------------------------------------------
InBatch(f, b) == \E k \in 1 .. Len(b) : b[k] = f

Logged(f) == Cardinality({k \in 1 .. Len(skiplog) : skiplog[k] = f})

\* batch i was closed below min_size because the first file of batch i+1 would
\* have taken it over max_size
ClosedUnderfilled(i) ==
    /\ i < Len(batches)
    /\ batches[i + 1] # <<>>
    /\ SumSizes(batches[i]) < min_size
    /\ SumSizes(batches[i]) + get_file_size(batches[i + 1][1]) > max_size

\* C1: every batch returned by group_files_by_size has its aggregate size in
\* [min_size, max_size], unless it is the only batch returned or it was closed
\* under-filled because the next file would have overflowed it.
C1_BatchSizeInRange ==
    gpc = "done" =>
        \A i \in 1 .. Len(batches) :
            \/ min_size <= SumSizes(batches[i]) /\ SumSizes(batches[i]) <= max_size
            \/ Len(batches) = 1
            \/ ClosedUnderfilled(i)

\* C2: a file whose size is greater than max_size is in no returned batch, and
\* its exclusion is logged exactly once.
C2_OversizedExcludedLoggedOnce ==
    gpc = "done" =>
        \A f \in 1 .. Len(files) :
            files[f] > max_size =>
                /\ \A i \in 1 .. Len(batches) : ~InBatch(f, batches[i])
                /\ Logged(f) = 1

\* ------------------------------------------------------------------------
\* Reading the result of a run of taccrec
\* ------------------------------------------------------------------------
\* the member has its row in its dataset's wfile table, pointing at tid t
Associated(cat, name, t) ==
    /\ Wfile(name) \in DOMAIN cat.wfile[Cdsid(name)].rows
    /\ cat.wfile[Cdsid(name)].rows[Wfile(name)] = t

\* C3: a second insert_tfile_row (upsert) for an archive name that has its row
\* leaves exactly one row of that name, holding the second call's values, and
\* reads back the tid every earlier call for that name read back.
C3_UpsertIdempotent ==
    (cpc = "done" /\ result = "ok" /\ RowsNamed(db0.tfile, summary.tfile) # {}) =>
        /\ Cardinality(RowsNamed(db.tfile, summary.tfile)) = 1
        /\ \A r \in RowsNamed(db.tfile, summary.tfile) :
              r = WithTid(RowValues(summary, UidOfLogname), r.tid)
        /\ tid = SelectTid(db0.tfile, summary.tfile)
        /\ \A i \in 1 .. Len(calls) : calls[i].tfile = summary.tfile => calls[i].tid = tid

\* a second call for the same name has returned, with another stamp than the first
C3_Witness ==
    /\ cpc = "done" /\ result = "ok"
    /\ Len(calls) = 2 /\ calls[1].tfile = calls[2].tfile
    /\ \E r \in RowsNamed(db0.tfile, summary.tfile) : r.stamp # summary.stamp

\* C4: once the catalog write has committed the archive row and returned, every
\* member listed for the archive (the note column) has its wfile row pointing at
\* the archive's tid, unless its dataset has no wfile table; with and without
\* --no-update.
C4_MembersAssociated ==
    (cpc = "done" /\ result = "ok" /\ committed) =>
        \A i \in 1 .. Len(summary.note) :
            \/ ~db.wfile[Cdsid(summary.note[i])].exists
            \/ Associated(db, summary.note[i], SelectTid(db.tfile, summary.tfile))

\* C9: a failure of one member's wfile update does not raise, leaves the archive
\* row committed, and the other members' updates are applied and committed.
C9_MemberFailureNonFatal ==
    (cpc = "done" /\ fault = "update") =>
        /\ result # "raised"
        /\ RowsNamed(db.tfile, summary.tfile) # {}
        /\ \A i \in 1 .. Len(member_details) :
              i # mi =>
                  \/ ~db.wfile[Cdsid(member_details[i])].exists
                  \/ Wfile(member_details[i]) \notin WfileKeys
                  \/ Associated(db, member_details[i], tid)

\* C10: when the INSERT (or its commit) fails, the error reaches the caller and
\* the tfile table and every wfile table are as they were before the call.
C10_UpsertFailureRollsBack ==
    (cpc = "done" /\ fault \in {"execute", "commit1"}) =>
        /\ result = "raised"
        /\ db = db0
        /\ ~committed

\* the INSERT failed (or its commit, the row then being in the connection's
\* view) in a call made for a catalog that already holds a tarred member
C10_Witness ==
    /\ cpc = "done" /\ fault \in {"execute", "commit1"}
    /\ db0.tfile # {}
    /\ \E k \in WfileKeys : db0.wfile["d1"].rows[k] > 0

\* ------------------------------------------------------------------------
\* Reading the files a run of tacctar leaves
\* ------------------------------------------------------------------------
\* C6: tar_batch_file for a batch file whose <tar>.mbr is there writes nothing:
\* all through the call every file is as it was when the call began.
C6_DumpExistsNoWrite ==
    (targs.mode = "batchfile" /\ Exists(fs0, MbrOfTar(TarOfBatch(targs.batch_file)))) =>
        /\ fs = fs0
        /\ tpc \in {"bf_check", "done"}

\* the call has returned, for a batch file whose tar file and member list were there
C6_Witness ==
    /\ targs.mode = "batchfile" /\ tpc = "done"
    /\ Exists(fs0, BfMbr) /\ Exists(fs0, BfTar)
    /\ fs0[BfTar] # <<>> /\ fs0[BfMbr] # <<>>

\* C8: no run overwrites or changes a file that was there when it began: every
\* build step only creates new tar, batch or member list files.
C8_NoFileOverwritten ==
    \A p \in DOMAIN fs0 : Exists(fs, p) /\ fs[p] = fs0[p]

\* what the two commands leave when nothing interrupts them
ExpectedMembers ==
    LET there == SelectSeq(CrashManifest, LAMBDA l : src[JoinRoot(l)].exists)
    IN  [i \in 1 .. Len(there) |-> Member(there[i], JoinRoot(there[i]))]
ExpectedDump == [i \in 1 .. Len(ExpectedMembers) |-> DumpLine(ExpectedMembers[i])]
ExpectedRow == get_tar_summary_and_details(CrashMbr, ExpectedDump, 0).summary
SameRow(r, sm) ==
    /\ r.tfile = sm.tfile /\ r.data_size = sm.data_size /\ r.wcount = sm.wcount
    /\ r.note = sm.note /\ r.dsids = sm.dsids /\ r.dsid = sm.dsid

\* C7: a deferred build or catalog recording that was killed at any point and
\* run again from the start ends with the tar file, the member list, the
\* archive row and the association references of a run that was not
\* interrupted (the row's time and the number the sequence gave it aside)
C7_KilledRerunSameFinalState ==
    (phase = "finished" /\ kills > 0) =>
        /\ Exists(fs, CrashTar) /\ fs[CrashTar] = ExpectedMembers
        /\ Exists(fs, CrashMbr) /\ fs[CrashMbr] = ExpectedDump
        /\ \E r \in db.tfile : db.tfile = {r} /\ SameRow(r, ExpectedRow)
        /\ db.wfile = db0.wfile

\* the files the walk of the run's directories finds
Walked == UNION {{Walk(wargs.dirs[i])[j] : j \in 1 .. Len(Walk(wargs.dirs[i]))} :
                 i \in 1 .. Len(wargs.dirs)}
Collected == {out[i] : i \in 1 .. Len(out)}
WasLogged(kind, what) == \E i \in 1 .. Len(wlog) : wlog[i] = LogEntry(kind, what)

\* <tar_root>/<dataset>/<path>: the row of <path> in wfile_<dataset> holds a tid > 0
PositiveReference(f) ==
    /\ db.wfile[f[2]].exists
    /\ SubSeq(f, 3, Len(f)) \in DOMAIN db.wfile[f[2]].rows
    /\ db.wfile[f[2]].rows[SubSeq(f, 3, Len(f))] > 0

\* C5: when a run of the collector with --check-tarred has ended, a walked file
\* whose row in wfile_<dataset>, under its path from the dataset directory, holds
\* a positive tid is not in the output, provided the connection for its dataset
\* was made and the query for the file was answered; the positive tids here are
\* those written by earlier runs of taccrec
C5_TarredNotCollected ==
    (wpc = "done" /\ wargs.check_tarred) =>
        \A f \in Walked :
            (/\ PositiveReference(f)
             /\ ~WasLogged("connect_error", f[2])
             /\ ~WasLogged("query_error", f)) => f \notin Collected

\* a run of taccrec has recorded d1/a, a later run of the collector has left it
\* out and has kept another file
C5_Witness ==
    /\ wpc = "done" /\ wargs.check_tarred /\ wlog = <<LogEntry("skip", Abs(N_d1a))>>
    /\ clock > 0 /\ PositiveReference(Abs(N_d1a))
    /\ Abs(N_d1a) \notin Collected /\ Collected # {}

\* ------------------------------------------------------------------------
\* What taccrec prints and what it leaves connected
\* ------------------------------------------------------------------------
NoTableMembers == {i \in 1 .. Len(member_details) : ~db.wfile[Cdsid(member_details[i])].exists}
Printed(kind) == \E j \in 1 .. Len(rout) : rout[j].kind = kind

\* C11: when insert_tfile_row has gone through a member list that holds a member
\* of a dataset without a wfile table, that member was skipped and the skip was
\* printed or logged, the call has succeeded, and every member whose table is
\* there has its row pointing at the archive's tid
C11_NoTableSkippedAndLogged ==
    (cpc = "done" /\ fault = "none" /\ committed /\ NoTableMembers # {}) =>
        /\ result = "ok"
        /\ Printed("no_table")
        /\ \A i \in 1 .. Len(member_details) :
              \/ i \in NoTableMembers
              \/ Wfile(member_details[i]) \notin WfileKeys
              \/ Associated(db, member_details[i], tid)

\* ------------------------------------------------------------------------
\* The collector when the catalog fails
\* ------------------------------------------------------------------------
\* what the walk of the directories gives when nothing is filtered
RECURSIVE WalkOf(_)
WalkOf(dirs) == IF dirs = <<>> THEN <<>> ELSE Walk(Head(dirs)) \o WalkOf(Tail(dirs))
CatalogFailed ==
    \E i \in 1 .. Len(wlog) : wlog[i].kind \in {"connect_error", "query_error"}

\* C12: a run of the collector with --check-tarred in which a connection or a
\* query failed ends (nothing is raised), has logged the failure, and gives the
\* files a run without --check-tarred gives: every walked file, in walk order
C12_CatalogFailureAllPass ==
    (wpc = "done" /\ wargs.check_tarred /\ CatalogFailed) => out = WalkOf(wargs.dirs)

\* C13: when main of taccrec or the collector has come to its end, by a normal
\* return, after a printed or logged error, or with an error raised, every
\* connection it opened (existence check, uid lookup, insert_tfile_row, skip
\* check) has been closed
C13_NoOpenConnectionAtEnd ==
    /\ cpc = "done" => open_conns = 0
    /\ wpc = "done" => wconns = 0

\* ------------------------------------------------------------------------
\* A member that cannot be added
\* ------------------------------------------------------------------------
\* the members a tar file holds when the first n of fl have been gone through
Present(fl, n) == SelectSeq(SubSeq(fl, 1, n), LAMBDA f : src[f].exists)
Missing(fl, n) == {fl[i] : i \in {j \in 1 .. n : ~src[fl[j]].exists}}
WarnedOf(f) == \E j \in 1 .. Len(tlog) : tlog[j] = LogEntry("add_failed", f)
BfFiles == [i \in 1 .. Len(file_list) |-> JoinRoot(file_list[i])]

\* C14: in tar_batches, tar_batches_across_dirs and tar_batch_file, when the
\* loop over the batch is over (the tar file is about to be closed) the tar file
\* holds, in batch order, a member for every file of the batch that is there,
\* and a warning was logged for every file that is not
C14_AddFailureSkipsOnlyThatMember ==
    /\ (tpc = "add" /\ ti > Len(CurBatch)) =>
          /\ fs[CurTar] = [i \in 1 .. Len(Present(CurBatch, Len(CurBatch))) |->
                              Member(CurArcname(Present(CurBatch, Len(CurBatch))[i]),
                                     Present(CurBatch, Len(CurBatch))[i])]
          /\ \A f \in Missing(CurBatch, Len(CurBatch)) : WarnedOf(f)
    /\ (tpc = "bf_add" /\ ti > Len(file_list)) =>
          /\ fs[BfTar] = [i \in 1 .. Len(Present(BfFiles, Len(BfFiles))) |->
                             Member(RelToRoot(Present(BfFiles, Len(BfFiles))[i]),
                                    Present(BfFiles, Len(BfFiles))[i])]
          /\ \A f \in Missing(BfFiles, Len(BfFiles)) : WarnedOf(f)

\* d1/b is gone: the tar file of the batch [d1/a, d1/b, d2/a] is about to be
\* closed with d1/a and d2/a in it
C14_Witness ==
    /\ tpc = "add" /\ ti > Len(CurBatch)
    /\ CurBatch = WalkAll /\ ~src[Abs(N_d1b)].exists
    /\ Len(fs[CurTar]) = 2 /\ Len(tlog) = 1

\* ------------------------------------------------------------------------
\* The member list of tar_batch_file read by taccrec
\* ------------------------------------------------------------------------
\* C15: for the member list tar_batch_file wrote (every member a regular file),
\* the summary taccrec computes counts every line of the list, sums their
\* sizes and names every member in the note
C15_DumpIsSufficientSource ==
    (phase = "record" /\ cpc # "idle" /\ member_list = CrashMbr /\ Exists(fs, CrashMbr)) =>
        /\ summary.wcount = Len(fs[CrashMbr])
        /\ summary.data_size = SumLineSizes(fs[CrashMbr])
        /\ summary.note = [i \in 1 .. Len(fs[CrashMbr]) |-> fs[CrashMbr][i].name]

\* ------------------------------------------------------------------------
\* taccrec --no-update
\* ------------------------------------------------------------------------
\* C16: all through a run of taccrec with --no-update that finds a row of the
\* archive's name in dssdb.tfile, the tfile table and every wfile table are as
\* they were when the run began
C16_NoUpdateLeavesCatalog ==
    (cpc # "idle" /\ no_update /\ RowsNamed(db0.tfile, summary.tfile) # {}) =>
        /\ db = db0
        /\ cpc \in {"check", "done"}

\* the run has ended after the notice that the row exists; the row is that of an
\* earlier run, made at another time
C16_Witness ==
    /\ cpc = "done" /\ no_update /\ result = "skipped"
    /\ \E r \in RowsNamed(db0.tfile, summary.tfile) : r.stamp # summary.stamp
    /\ db = db0

\* ------------------------------------------------------------------------
\* The names of the archives
\* ------------------------------------------------------------------------
\* the prefix the datasets of the batch's files give
PrefixOfMembers(batch) ==
    LET ids == {DatasetOf(batch[i]) : i \in 1 .. Len(batch)}
    IN  IF Cardinality(ids) > 3 THEN CollapsedPrefix(SortedNames(ids)[1], Cardinality(ids))
        ELSE JoinedPrefix(SortedNames(ids))

\* C17: when a run over an empty output directory has ended, the files it made
\* are, for the i-th batch, the one named by the sorted distinct datasets of the
\* batch's files (<first>_dn<count> above 3), i and the number of files, with
\* the same base name for a tar file and a batch file, one file for each batch
C17_NameIsFunctionOfBatch ==
    (tpc = "done" /\ targs.mode = "across" /\ fs0 = <<>>) =>
        /\ \A i \in 1 .. Len(targs.batches) :
              Exists(fs, Path(Stem(PrefixOfMembers(targs.batches[i]), i, Len(targs.batches[i])),
                              IF targs.tar_batch THEN "tar" ELSE "batch"))
        /\ Cardinality(DOMAIN fs) = Len(targs.batches)

\* ------------------------------------------------------------------------
\* group_files_by_size: closing an under-filled batch, the end of the input
\* ------------------------------------------------------------------------
\* C18: a step of the loop for a file of size <= max_size that does not fit in
\* the current batch while that batch is below min_size appends the current
\* batch to the output as a batch of its own and starts a batch with the file
C18_ForcedCloseKeepsBatch ==
    [][(/\ gpc = "loop" /\ fi <= Len(files)
        /\ get_file_size(fi) <= max_size
        /\ current_size + get_file_size(fi) > max_size
        /\ current_size < min_size)
       => (/\ batches' = Append(batches, current_batch)
           /\ current_batch' = <<fi>>)]_vars

\* C19: the step after the last file, with a current batch that is not empty,
\* appends the batch's files to the last batch of the output when the batch is
\* below min_size and the output is not empty, and appends the batch itself
\* otherwise; after main's own merge no last batch below min_size follows
\* another batch; files of 0.5, 0.6 and 0.5 TiB with 1 and 3 TiB give the one
\* batch [f1, f2, f3]
C19_TrailingBatchMerged ==
    /\ [][(gpc = "loop" /\ fi > Len(files) /\ current_batch # <<>>)
          => (batches' = IF current_size < min_size /\ batches # <<>>
                         THEN [batches EXCEPT ![Len(batches)] = @ \o current_batch]
                         ELSE batches \o <<current_batch>>)]_vars
    /\ [](gpc = "main_done" /\ Len(batches) > 1
            => SumSizes(batches[Len(batches)]) >= min_size)
    /\ [](gpc \in {"done", "main_done"} /\ files = <<5, 6, 5>> /\ min_size = 10 /\ max_size = 30
            => batches = <<<<1, 2, 3>>>>)

\* the last batch was below min_size and went to the batch before it
C19_Witness ==
    /\ gpc = "done" /\ current_batch # <<>> /\ current_size < min_size
    /\ Len(batches) >= 1
    /\ Len(batches[Len(batches)]) > Len(current_batch)

\* C20: no batch returned by group_files_by_size is empty
C20_NoEmptyBatch ==
    gpc = "done" => \A i \in 1 .. Len(batches) : batches[i] # <<>>

\* ------------------------------------------------------------------------
\* group_files_by_size: the batches and the input
\* ------------------------------------------------------------------------
RECURSIVE Concat(_)
Concat(bs) == IF bs = <<>> THEN <<>> ELSE Head(bs) \o Concat(Tail(bs))
Positions == [i \in 1 .. Len(files) |-> i]
NotSkipped(f) == \A k \in 1 .. Len(skiplog) : skiplog[k] # f

\* C21: the batches group_files_by_size returns, and those main goes on with
\* after its own merge, put one after the other in output order, are the input
\* files in input order without the files that were skipped as too large
C21_BatchesPartitionInput ==
    gpc \in {"done", "main_done"} => Concat(batches) = SelectSeq(Positions, NotSkipped)

\* a file was skipped, and the last batch was below min_size and went to the
\* batch before it
C21_Witness ==
    /\ gpc = "main_done" /\ skiplog # <<>>
    /\ current_batch # <<>> /\ current_size < min_size
    /\ Len(batches) >= 1
    /\ Len(batches[Len(batches)]) > Len(current_batch)

====
